---- MODULE Spec2Model ----
(***************************************************************************)
(* A model of mt_server.c: the listener (main), the connection queue       *)
(* (enqueue / dequeue under the queue mutex and condition variable), the   *)
(* worker threads, the per-connection sender threads, and the client       *)
(* manager (add_client / remove_client / broadcast_to_clients).            *)
(*                                                                         *)
(* Spec     : the server as main() starts it, from the first accept on.    *)
(*            The client manager is never called from main, worker_thread  *)
(*            or sender_thread, so its state never changes under Spec.     *)
(*            The peers may close their end at any time; accept, malloc    *)
(*            in enqueue, malloc and pthread_create in the worker may      *)
(*            fail; a send on a reset connection may raise SIGPIPE.        *)
(* FairSpec : Spec with weak fairness on every server thread's steps.      *)
(* RegSpec  : threads calling add_client, remove_client and                *)
(*            broadcast_to_clients concurrently with any arguments.        *)
(* SetupSpec: main from its first statement, then the running server.      *)
(* LockSpec : threads calling enqueue, dequeue and the client manager's     *)
(*            functions in any order.                                      *)
(* AlgoSpec : process_byte_frame, binary_search_for_byte and               *)
(*            linear_search_for_byte of algo.c applied to any array.       *)
(***************************************************************************)
EXTENDS Integers, Sequences, FiniteSets, TLC

\* Size of the worker pool.  mt_server.c:20 sets 4; the model is scaled down.
NUM_WORKER_THREADS == 2
\* Capacity of the client manager.  mt_server.c:21 sets 100; scaled down.
MAX_CLIENTS == 2
\* Number of connections the listener accepts in one run of the model.
MaxConns == 3
\* Number of threads calling the client manager's functions under RegSpec.
NumCallers == 2
\* Number of distinct descriptors passed to the client manager under RegSpec.
NumRegFds == 2
\* Most nodes the callers of LockSpec have in the queue or are about to link.
MaxQueued == 1
\* Longest input array given to the functions of algo.c under AlgoSpec.
MaxDataLen == 4
\* Largest byte value in those arrays (a uint8_t goes up to 255).
MaxByte == 2
\* What a counter of process_byte_frame wraps at.  algo.c:46 declares the
\* counters uint16_t (65536); scaled down so that MaxDataLen reaches a wrap.
CountModulus == 4

Workers == 1..NUM_WORKER_THREADS
\* The mutex owner id of the listener (main thread); 0 is "unlocked".
ListenerId == NUM_WORKER_THREADS + 1
\* Connection identities (one per successful accept), in acceptance order.
Conns == 1..MaxConns
\* Descriptor numbers the kernel hands out for accepted sockets.
Fds == 1..MaxConns
Callers == 1..NumCallers
RegFds == 1..NumRegFds
Bytes == 0..MaxByte
\* The arrays of at most MaxDataLen bytes.
Arrays == UNION {[1..n -> Bytes] : n \in 0..MaxDataLen}
Slots == 0..(MAX_CLIENTS - 1)

VARIABLES
    \* ---- kernel / environment
    fdtab,      \* fdtab[f]: the connection descriptor f refers to, 0 if f is free
    sock,       \* sock[c]: "none" (not accepted yet), "open", "fin" (the peer
                \* has closed its end), "rst" (reset: the server sent to a
                \* peer that had closed), "closed" (released by close())
    nconn,      \* number of connections accepted so far
    alive,      \* FALSE once a signal has terminated the server process
    \* ---- conn_queue_t queue
    queue,      \* the linked list head..tail, as a sequence of nodes
    qmutex,     \* owner of queue.mutex, 0 when unlocked
    waiters,    \* workers blocked in pthread_cond_wait on queue.cond
    \* ---- main (listener)
    lpc, lfd, lconn,
    \* ---- worker_thread
    wpc, wfd, wconn,
    \* ---- sender_thread, one per dispatched connection
    spc, sfd,
    wire,       \* parity of the number of messages the senders have sent
    \* ---- history
    enqHist,    \* the connections enqueue appended, in order
    deqHist,    \* the connections dequeue removed, in order
    phase,      \* phase[c]: "none", "queued", "active", "closed"
    \* ---- client_manager_t clients
    client_fds, count, cmutex,
    \* ---- callers of the client manager (RegSpec)
    rpc, rfd, ri,
    acc,        \* slots of client_fds the last statement read or wrote
    rpre,       \* rpre[t]: client_fds[0..count-1] when t took the mutex
    rsent,      \* rsent[t]: descriptors t's broadcast has called send on
    rfail,      \* rfail[t]: number of sends of t's broadcast that failed
    \* ---- main's setup (SetupSpec)
    lsock,      \* the listening socket: "uninit" (sockfd not assigned yet),
                \* "created", "bound", "listening", "closed"
    optfail,    \* whether the setsockopt call of the setup returned < 0
    exitat,     \* the call whose failure made main call exit(EXIT_FAILURE):
                \* "none", "socket", "bind", "listen", "pool"
    \* ---- algo.c (AlgoSpec)
    data,       \* the input array, as a sequence of bytes
    target,     \* the byte searched for
    apc,        \* "idle", "processed", "searched"
    result,     \* process_byte_frame's output array, up to result_len
    ret,        \* process_byte_frame's return value
    bin_res,    \* binary_search_for_byte's return value
    lin_res     \* linear_search_for_byte's return value

kernelVars == <<fdtab, sock, nconn, alive>>
queueVars == <<queue, qmutex, waiters>>
listenerVars == <<lpc, lfd, lconn>>
workerVars == <<wpc, wfd, wconn>>
senderVars == <<spc, sfd, wire>>
histVars == <<enqHist, deqHist, phase>>
srvVars == <<kernelVars, queueVars, listenerVars, workerVars, senderVars,
             histVars>>
regVars == <<client_fds, count, cmutex, rpc, rfd, ri, acc, rpre, rsent, rfail>>
setupVars == <<lsock, optfail, exitat>>
algoVars == <<data, target, apc, result, ret, bin_res, lin_res>>
\* What the threads of the running server never touch.
outerVars == <<regVars, setupVars, algoVars>>
\* What the client manager's functions never touch.
nonRegVars == <<srvVars, setupVars, algoVars>>
vars == <<srvVars, regVars, setupVars, algoVars>>

----------------------------------------------------------------------------
(* Kernel helpers *)

\* accept() returns the lowest-numbered descriptor that is not open.
LowestFreeFd == CHOOSE f \in Fds : fdtab[f] = 0 /\ \A g \in Fds : fdtab[g] = 0 => f <= g

\* close(f): releases the socket f refers to; EBADF (no effect) when f is free.
CloseSock(f) == IF fdtab[f] = 0 THEN sock ELSE [sock EXCEPT ![fdtab[f]] = "closed"]
CloseFd(f) == [fdtab EXCEPT ![f] = 0]

\* A thread working for connection c touches descriptor f: was it another
\* connection's socket?
Crosses(c, f) == fdtab[f] # 0 /\ fdtab[f] # c

----------------------------------------------------------------------------
(* The queue's list operations *)

Node(f, c) == [connfd |-> f, conn |-> c]

\* enqueue: q->tail->next = node; q->tail = node (or head = tail = node).
QueueAppendFront(q, n) == <<n>> \o q
QueueAppend(q, n) == Append(q, n)

\* dequeue: node = q->head; q->head = node->next.
QueueHead(q) == Head(q)
\* A dequeue that reads the head node but leaves it linked.
QueueKeepHead(q) == q
QueueRest(q) == Tail(q)

----------------------------------------------------------------------------
\* What every specification starts from: no connection, an empty queue, an
\* empty client manager, nothing computed by algo.c yet.
CommonInit ==
    /\ fdtab = [f \in Fds |-> 0]
    /\ sock = [c \in Conns |-> "none"]
    /\ nconn = 0
    /\ alive = TRUE
    /\ queue = <<>>
    /\ qmutex = 0
    /\ waiters = {}
    /\ lfd = 0
    /\ lconn = 0
    /\ wfd = [w \in Workers |-> 0]
    /\ wconn = [w \in Workers |-> 0]
    /\ spc = [c \in Conns |-> "none"]
    /\ sfd = [c \in Conns |-> 0]
    /\ wire = 0
    /\ enqHist = <<>>
    /\ deqHist = <<>>
    /\ phase = [c \in Conns |-> "none"]
    /\ client_fds = [i \in Slots |-> 0]
    /\ count = 0
    /\ cmutex = 0
    /\ rpc = [t \in Callers |-> "idle"]
    /\ rfd = [t \in Callers |-> 0]
    /\ ri = [t \in Callers |-> 0]
    /\ acc = {}
    /\ rpre = [t \in Callers |-> <<>>]
    /\ rsent = [t \in Callers |-> <<>>]
    /\ rfail = [t \in Callers |-> 0]
    /\ optfail = FALSE
    /\ exitat = "none"
    /\ apc = "idle"
    /\ result = <<>>
    /\ ret = 0
    /\ bin_res = 0
    /\ lin_res = 0

\* main has finished its setup: the socket listens, the pool runs, and main
\* is about to call accept for the first time.
ServerUp ==
    /\ lsock = "listening"
    /\ lpc = "accept"
    /\ wpc = [w \in Workers |-> "d_lock"]

Init ==
    /\ CommonInit
    /\ ServerUp
    /\ data = <<>>
    /\ target = 0

----------------------------------------------------------------------------
(* The peers (environment) *)

\* The client closes its end: the server's recv will return 0.
PeerClose(c) ==
    /\ alive
    /\ sock[c] = "open"
    /\ sock' = [sock EXCEPT ![c] = "fin"]
    /\ UNCHANGED <<fdtab, nconn, alive, queueVars, listenerVars, workerVars,
                   senderVars, histVars, outerVars>>

----------------------------------------------------------------------------
(* main: the accept loop, and enqueue *)

\* connfd = accept(...) succeeds.
Accept ==
    /\ alive
    /\ lpc = "accept"
    /\ nconn < MaxConns
    /\ LET f == LowestFreeFd
           c == nconn + 1
       IN /\ fdtab' = [fdtab EXCEPT ![f] = c]
          /\ sock' = [sock EXCEPT ![c] = "open"]
          /\ nconn' = c
          /\ lfd' = f
          /\ lconn' = c
    /\ lpc' = "enqueue"
    /\ UNCHANGED <<alive, queueVars, workerVars, senderVars, histVars,
                   outerVars>>

\* accept() returns < 0: perror, continue.
AcceptFail ==
    /\ alive
    /\ lpc = "accept"
    /\ UNCHANGED vars

\* enqueue: malloc fails: perror, return.  connfd is not closed; main's
\* connfd is dead until the next accept overwrites it.
EnqMallocFail ==
    /\ alive
    /\ lpc = "enqueue"
    /\ lpc' = "accept"
    /\ lfd' = 0
    /\ lconn' = 0
    /\ UNCHANGED <<kernelVars, queueVars, workerVars, senderVars, histVars,
                   outerVars>>

\* enqueue: malloc succeeds, the node is filled in, and
\* pthread_mutex_lock(&q->mutex) is acquired.
EnqLock ==
    /\ alive
    /\ lpc = "enqueue"
    /\ qmutex = 0
    /\ qmutex' = ListenerId
    /\ lpc' = "e_append"
    /\ UNCHANGED <<kernelVars, queue, waiters, lfd, lconn, workerVars,
                   senderVars, histVars, outerVars>>

\* An enqueue that links the node and does not signal the condition.
EnqAppendNoSignal ==
    /\ alive
    /\ lpc = "e_append"
    /\ queue' = QueueAppend(queue, Node(lfd, lconn))
    /\ enqHist' = Append(enqHist, lconn)
    /\ phase' = [phase EXCEPT ![lconn] = "queued"]
    /\ lpc' = "e_unlock"
    /\ UNCHANGED <<kernelVars, qmutex, waiters, lfd, lconn, workerVars,
                   senderVars, deqHist, outerVars>>

\* enqueue: link the node at the tail, then pthread_cond_signal(&q->cond):
\* one waiter, if there is any, is woken.
EnqAppend ==
    /\ alive
    /\ lpc = "e_append"
    /\ queue' = QueueAppend(queue, Node(lfd, lconn))
    /\ enqHist' = Append(enqHist, lconn)
    /\ phase' = [phase EXCEPT ![lconn] = "queued"]
    /\ IF waiters = {}
       THEN waiters' = waiters
       ELSE \E w \in waiters : waiters' = waiters \ {w}
    /\ lpc' = "e_unlock"
    /\ UNCHANGED <<kernelVars, qmutex, lfd, lconn, workerVars, senderVars,
                   deqHist, outerVars>>

\* enqueue: pthread_mutex_unlock(&q->mutex); return to the accept loop.
EnqUnlock ==
    /\ alive
    /\ lpc = "e_unlock"
    /\ qmutex' = 0
    /\ lpc' = "accept"
    /\ lfd' = 0
    /\ lconn' = 0
    /\ UNCHANGED <<kernelVars, queue, waiters, workerVars, senderVars,
                   histVars, outerVars>>

----------------------------------------------------------------------------
(* worker_thread: dequeue *)

\* dequeue: pthread_mutex_lock(&q->mutex).
DeqLock(w) ==
    /\ alive
    /\ wpc[w] = "d_lock"
    /\ qmutex = 0
    /\ qmutex' = w
    /\ wpc' = [wpc EXCEPT ![w] = "d_check"]
    /\ UNCHANGED <<kernelVars, queue, waiters, listenerVars, wfd, wconn,
                   senderVars, histVars, outerVars>>

\* dequeue: while(q->head == NULL) pthread_cond_wait(...): on an empty queue
\* the worker releases the mutex and blocks on the condition.
DeqWait(w) ==
    /\ alive
    /\ wpc[w] = "d_check"
    /\ queue = <<>>
    /\ qmutex' = 0
    /\ waiters' = waiters \cup {w}
    /\ wpc' = [wpc EXCEPT ![w] = "d_wait"]
    /\ UNCHANGED <<kernelVars, queue, listenerVars, wfd, wconn, senderVars,
                   histVars, outerVars>>

\* dequeue: q->head != NULL: unlink the head node, read its connfd, free it.
DeqTake(w) ==
    /\ alive
    /\ wpc[w] = "d_check"
    /\ queue # <<>>
    /\ LET node == QueueHead(queue)
       IN /\ wfd' = [wfd EXCEPT ![w] = node.connfd]
          /\ wconn' = [wconn EXCEPT ![w] = node.conn]
          /\ deqHist' = Append(deqHist, node.conn)
          /\ phase' = [phase EXCEPT ![node.conn] = "active"]
    /\ queue' = QueueRest(queue)
    /\ wpc' = [wpc EXCEPT ![w] = "d_unlock"]
    /\ UNCHANGED <<kernelVars, qmutex, waiters, listenerVars, senderVars,
                   enqHist, outerVars>>

\* pthread_cond_wait may return without a signal (spurious wakeup).
SpuriousWake(w) ==
    /\ alive
    /\ wpc[w] = "d_wait"
    /\ w \in waiters
    /\ waiters' = waiters \ {w}
    /\ UNCHANGED <<kernelVars, queue, qmutex, listenerVars, workerVars,
                   senderVars, histVars, outerVars>>

\* A dequeue that tests the queue with "if" instead of "while": the woken
\* worker unlinks the head without looking again, and returns no handle at
\* all (0) when the queue is empty by then.
DeqWakeNoRecheck(w) ==
    /\ alive
    /\ wpc[w] = "d_wait"
    /\ w \notin waiters
    /\ qmutex = 0
    /\ qmutex' = w
    /\ IF queue = <<>>
       THEN /\ wfd' = [wfd EXCEPT ![w] = 0]
            /\ wconn' = [wconn EXCEPT ![w] = 0]
            /\ UNCHANGED <<queue, deqHist, phase>>
       ELSE /\ wfd' = [wfd EXCEPT ![w] = QueueHead(queue).connfd]
            /\ wconn' = [wconn EXCEPT ![w] = QueueHead(queue).conn]
            /\ deqHist' = Append(deqHist, QueueHead(queue).conn)
            /\ phase' = [phase EXCEPT ![QueueHead(queue).conn] = "active"]
            /\ queue' = QueueRest(queue)
    /\ wpc' = [wpc EXCEPT ![w] = "d_unlock"]
    /\ UNCHANGED <<kernelVars, waiters, listenerVars, senderVars, enqHist,
                   outerVars>>

\* pthread_cond_wait returns: the woken worker re-acquires the mutex and
\* re-evaluates the loop condition.
DeqWake(w) ==
    /\ alive
    /\ wpc[w] = "d_wait"
    /\ w \notin waiters
    /\ qmutex = 0
    /\ qmutex' = w
    /\ wpc' = [wpc EXCEPT ![w] = "d_check"]
    /\ UNCHANGED <<kernelVars, queue, waiters, listenerVars, wfd, wconn,
                   senderVars, histVars, outerVars>>

\* dequeue: pthread_mutex_unlock(&q->mutex); return connfd.
DeqUnlock(w) ==
    /\ alive
    /\ wpc[w] = "d_unlock"
    /\ qmutex' = 0
    /\ wpc' = [wpc EXCEPT ![w] = "spawn"]
    /\ UNCHANGED <<kernelVars, queue, waiters, listenerVars, wfd, wconn,
                   senderVars, histVars, outerVars>>

----------------------------------------------------------------------------
(* worker_thread: the sender's creation, the read loop, the close *)

\* pthread_create(&send_thread, NULL, sender_thread, conn_arg) succeeds: the
\* sender starts with its own copy of connfd.
SpawnSender(w) ==
    /\ alive
    /\ wpc[w] = "spawn"
    /\ spc' = [spc EXCEPT ![wconn[w]] = "send"]
    /\ sfd' = [sfd EXCEPT ![wconn[w]] = wfd[w]]
    /\ wpc' = [wpc EXCEPT ![w] = "recv"]
    /\ UNCHANGED <<kernelVars, queueVars, listenerVars, wfd, wconn, wire,
                   histVars, outerVars>>

\* malloc(sizeof(int)) returns NULL and *conn_arg = connfd stores through
\* it unchecked: the store to address 0 faults and SIGSEGV terminates the
\* process.
SpawnNoMem(w) ==
    /\ alive
    /\ wpc[w] = "spawn"
    /\ alive' = FALSE
    /\ UNCHANGED <<fdtab, sock, nconn, queueVars, listenerVars, workerVars,
                   senderVars, histVars, outerVars>>

\* pthread_create fails: perror, free(conn_arg); the read loop still runs.
SpawnFail(w) ==
    /\ alive
    /\ wpc[w] = "spawn"
    /\ wpc' = [wpc EXCEPT ![w] = "recv"]
    /\ UNCHANGED <<kernelVars, queueVars, listenerVars, wfd, wconn, senderVars,
                   histVars, outerVars>>

\* What recv(connfd, ...) on descriptor f returns: "data" (n > 0) while the
\* peer is open (or the call blocks); "eof" (n = 0) once the peer has closed;
\* "err" (n < 0) on a reset connection or a descriptor that is not open.
RecvOutcome(f) ==
    IF fdtab[f] = 0 THEN "err"
    ELSE IF sock[fdtab[f]] = "fin" THEN "eof"
    ELSE IF sock[fdtab[f]] = "rst" THEN "err"
    ELSE "data"

\* while((n = recv(...)) > 0) { log }: one more chunk of bytes is read.
RecvData(w) ==
    /\ alive
    /\ wpc[w] = "recv"
    /\ RecvOutcome(wfd[w]) = "data"
    /\ UNCHANGED vars

\* recv returns 0 or < 0: the read loop ends; perror if n < 0, printf
\* otherwise, and the worker is about to close.
RecvEnd(w) ==
    /\ alive
    /\ wpc[w] = "recv"
    /\ RecvOutcome(wfd[w]) \in {"eof", "err"}
    /\ wpc' = [wpc EXCEPT ![w] = "close"]
    /\ UNCHANGED <<kernelVars, queueVars, listenerVars, wfd, wconn, senderVars,
                   histVars, outerVars>>

\* A worker that goes back to dequeue without closing the connection.
WorkerCloseSkipped(w) ==
    /\ alive
    /\ wpc[w] = "close"
    /\ wpc' = [wpc EXCEPT ![w] = "d_lock"]
    /\ wfd' = [wfd EXCEPT ![w] = 0]
    /\ wconn' = [wconn EXCEPT ![w] = 0]
    /\ UNCHANGED <<kernelVars, queueVars, listenerVars, senderVars, histVars,
                   outerVars>>

\* close(connfd), then back to dequeue; the loop's connfd goes out of scope.
WorkerClose(w) ==
    /\ alive
    /\ wpc[w] = "close"
    /\ sock' = CloseSock(wfd[w])
    /\ fdtab' = CloseFd(wfd[w])
    /\ phase' = [phase EXCEPT ![wconn[w]] = "closed"]
    /\ wpc' = [wpc EXCEPT ![w] = "d_lock"]
    /\ wfd' = [wfd EXCEPT ![w] = 0]
    /\ wconn' = [wconn EXCEPT ![w] = 0]
    /\ UNCHANGED <<nconn, alive, queueVars, listenerVars, senderVars, enqHist,
                   deqHist, outerVars>>

----------------------------------------------------------------------------
(* sender_thread, started for connection c with connfd = sfd[c] *)

\* Whether send(connfd, ...) on descriptor f succeeds: it fails on a
\* descriptor that is not open (EBADF) and on a reset connection (EPIPE).
SendOk(f) == fdtab[f] # 0 /\ sock[fdtab[f]] # "rst"

\* Whether send(connfd, ..., 0) on descriptor f raises SIGPIPE: the flags are
\* 0 (no MSG_NOSIGNAL) and the connection behind f has been reset.
SendRaisesSigpipe(f) == fdtab[f] # 0 /\ sock[fdtab[f]] = "rst"

\* One iteration of while(1) whose send(...) succeeds (>= 0): the message
\* goes out, printf, sleep(1).  Data sent to a peer that has closed its end
\* is answered by a reset.
SenderSend(c) ==
    /\ alive
    /\ spc[c] = "send"
    /\ SendOk(sfd[c])
    /\ sock' = [sock EXCEPT ![fdtab[sfd[c]]] = IF @ = "fin" THEN "rst" ELSE @]
    /\ wire' = 1 - wire
    /\ UNCHANGED <<fdtab, nconn, alive, queueVars, listenerVars, workerVars,
                   spc, sfd, histVars, outerVars>>

\* send(...) < 0: perror, break.  On a reset connection this is the outcome
\* when the process was started with SIGPIPE ignored.
SenderSendFail(c) ==
    /\ alive
    /\ spc[c] = "send"
    /\ ~SendOk(sfd[c])
    /\ spc' = [spc EXCEPT ![c] = "close"]
    /\ UNCHANGED <<kernelVars, queueVars, listenerVars, workerVars, sfd, wire,
                   histVars, outerVars>>

\* send(...) on a reset connection raises SIGPIPE; main installs no handler,
\* so under the default disposition the signal terminates the process: no
\* thread takes another step.
SenderSigpipe(c) ==
    /\ alive
    /\ spc[c] = "send"
    /\ SendRaisesSigpipe(sfd[c])
    /\ alive' = FALSE
    /\ UNCHANGED <<fdtab, sock, nconn, queueVars, listenerVars, workerVars,
                   senderVars, histVars, outerVars>>

\* After the loop: close(connfd); return NULL (the thread ends).
SenderClose(c) ==
    /\ alive
    /\ spc[c] = "close"
    /\ sock' = CloseSock(sfd[c])
    /\ fdtab' = CloseFd(sfd[c])
    /\ spc' = [spc EXCEPT ![c] = "done"]
    /\ sfd' = [sfd EXCEPT ![c] = 0]
    /\ UNCHANGED <<nconn, alive, queueVars, listenerVars, workerVars, wire,
                   histVars, outerVars>>

----------------------------------------------------------------------------
ListenerStep ==
    \/ Accept
    \/ AcceptFail
    \/ EnqMallocFail
    \/ EnqLock
    \/ EnqAppend
    \/ EnqUnlock

\* The steps of worker_thread's own code.
WorkerRuns(w) ==
    \/ DeqLock(w)
    \/ DeqWait(w)
    \/ DeqWake(w)
    \/ DeqTake(w)
    \/ DeqUnlock(w)
    \/ SpawnSender(w)
    \/ SpawnNoMem(w)
    \/ SpawnFail(w)
    \/ RecvData(w)
    \/ RecvEnd(w)
    \/ WorkerClose(w)

WorkerStep(w) ==
    \/ WorkerRuns(w)
    \/ SpuriousWake(w)

SenderStep(c) ==
    \/ SenderSend(c)
    \/ SenderSendFail(c)
    \/ SenderSigpipe(c)
    \/ SenderClose(c)

Next ==
    \/ ListenerStep
    \/ \E w \in Workers : WorkerStep(w)
    \/ \E c \in Conns : SenderStep(c)
    \/ \E c \in Conns : PeerClose(c)

Spec == Init /\ [][Next]_vars

----------------------------------------------------------------------------
(* The client manager: add_client, remove_client, broadcast_to_clients,     *)
(* called by the threads of Callers with any descriptor of RegFds.          *)

\* The registered descriptors client_fds[0..count-1], as a sequence.
Contents == [k \in 1..count |-> client_fds[k - 1]]

Range(q) == {q[k] : k \in 1..Len(q)}

\* A thread calls add_client(&clients, fd).
CallAdd(t, fd) ==
    /\ rpc[t] = "idle"
    /\ rpc' = [rpc EXCEPT ![t] = "add_lock"]
    /\ rfd' = [rfd EXCEPT ![t] = fd]
    /\ UNCHANGED <<nonRegVars, client_fds, count, cmutex, ri, acc, rpre, rsent,
                   rfail>>

\* add_client: pthread_mutex_lock(&cm->mutex).
AddLock(t) ==
    /\ rpc[t] = "add_lock"
    /\ cmutex = 0
    /\ cmutex' = t
    /\ rpre' = [rpre EXCEPT ![t] = Contents]
    /\ rpc' = [rpc EXCEPT ![t] = "add_body"]
    /\ UNCHANGED <<nonRegVars, client_fds, count, rfd, ri, acc, rsent, rfail>>

\* add_client: if(cm->count < MAX_CLIENTS).
AddHasRoomOffByOne(n) == n <= MAX_CLIENTS
AddHasRoom(n) == n < MAX_CLIENTS

\* add_client: cm->client_fds[cm->count++] = fd, or the warning.
AddBody(t) ==
    /\ rpc[t] = "add_body"
    /\ IF AddHasRoom(count)
       THEN /\ client_fds' = [client_fds EXCEPT ![count] = rfd[t]]
            /\ count' = count + 1
            /\ acc' = {count}
       ELSE /\ acc' = {}
            /\ UNCHANGED <<client_fds, count>>
    /\ rpc' = [rpc EXCEPT ![t] = "add_unlock"]
    /\ UNCHANGED <<nonRegVars, cmutex, rfd, ri, rpre, rsent, rfail>>

\* pthread_mutex_unlock(&cm->mutex); return.  The call's locals are gone.
RegUnlock(t) ==
    /\ rpc[t] \in {"add_unlock", "rm_unlock", "bc_unlock"}
    /\ cmutex' = 0
    /\ rpc' = [rpc EXCEPT ![t] = "idle"]
    /\ rfd' = [rfd EXCEPT ![t] = 0]
    /\ ri' = [ri EXCEPT ![t] = 0]
    /\ rpre' = [rpre EXCEPT ![t] = <<>>]
    /\ rsent' = [rsent EXCEPT ![t] = <<>>]
    /\ rfail' = [rfail EXCEPT ![t] = 0]
    /\ acc' = {}
    /\ UNCHANGED <<nonRegVars, client_fds, count>>

\* A thread calls remove_client(&clients, fd).
CallRemove(t, fd) ==
    /\ rpc[t] = "idle"
    /\ rpc' = [rpc EXCEPT ![t] = "rm_lock"]
    /\ rfd' = [rfd EXCEPT ![t] = fd]
    /\ UNCHANGED <<nonRegVars, client_fds, count, cmutex, ri, acc, rpre, rsent,
                   rfail>>

\* remove_client: pthread_mutex_lock(&cm->mutex); int i = 0.
RmLock(t) ==
    /\ rpc[t] = "rm_lock"
    /\ cmutex = 0
    /\ cmutex' = t
    /\ rpre' = [rpre EXCEPT ![t] = Contents]
    /\ ri' = [ri EXCEPT ![t] = 0]
    /\ rpc' = [rpc EXCEPT ![t] = "rm_loop"]
    /\ UNCHANGED <<nonRegVars, client_fds, count, rfd, acc, rsent, rfail>>

\* remove_client: i < cm->count, and if(cm->client_fds[i] == fd), else i++.
RmLoop(t) ==
    /\ rpc[t] = "rm_loop"
    /\ IF ri[t] < count
       THEN /\ acc' = {ri[t]}
            /\ IF client_fds[ri[t]] = rfd[t]
               THEN /\ rpc' = [rpc EXCEPT ![t] = "rm_copy"]
                    /\ ri' = ri
               ELSE /\ ri' = [ri EXCEPT ![t] = @ + 1]
                    /\ rpc' = rpc
       ELSE /\ acc' = {}
            /\ rpc' = [rpc EXCEPT ![t] = "rm_unlock"]
            /\ ri' = ri
    /\ UNCHANGED <<nonRegVars, client_fds, count, cmutex, rfd, rpre, rsent,
                   rfail>>

\* remove_client: cm->client_fds[i] = cm->client_fds[cm->count - 1].
RmCopy(t) ==
    /\ rpc[t] = "rm_copy"
    /\ client_fds' = [client_fds EXCEPT ![ri[t]] = client_fds[count - 1]]
    /\ acc' = {ri[t], count - 1}
    /\ rpc' = [rpc EXCEPT ![t] = "rm_dec"]
    /\ UNCHANGED <<nonRegVars, count, cmutex, rfd, ri, rpre, rsent, rfail>>

\* remove_client: cm->count--; printf; break.
RmDec(t) ==
    /\ rpc[t] = "rm_dec"
    /\ count' = count - 1
    /\ acc' = {}
    /\ rpc' = [rpc EXCEPT ![t] = "rm_unlock"]
    /\ UNCHANGED <<nonRegVars, client_fds, cmutex, rfd, ri, rpre, rsent, rfail>>

\* A thread calls broadcast_to_clients(&clients, data, len).
CallBroadcast(t) ==
    /\ rpc[t] = "idle"
    /\ rpc' = [rpc EXCEPT ![t] = "bc_lock"]
    /\ UNCHANGED <<nonRegVars, client_fds, count, cmutex, rfd, ri, acc, rpre,
                   rsent, rfail>>

\* A broadcast that starts iterating without taking the mutex.
BcLockSkipped(t) ==
    /\ rpc[t] = "bc_lock"
    /\ rpre' = [rpre EXCEPT ![t] = Contents]
    /\ ri' = [ri EXCEPT ![t] = 0]
    /\ rpc' = [rpc EXCEPT ![t] = "bc_loop"]
    /\ UNCHANGED <<nonRegVars, client_fds, count, cmutex, rfd, acc, rsent,
                   rfail>>

\* broadcast_to_clients: pthread_mutex_lock(&cm->mutex); int i = 0.
BcLock(t) ==
    /\ rpc[t] = "bc_lock"
    /\ cmutex = 0
    /\ cmutex' = t
    /\ rpre' = [rpre EXCEPT ![t] = Contents]
    /\ ri' = [ri EXCEPT ![t] = 0]
    /\ rpc' = [rpc EXCEPT ![t] = "bc_loop"]
    /\ UNCHANGED <<nonRegVars, client_fds, count, rfd, acc, rsent, rfail>>

\* broadcast_to_clients: send(cm->client_fds[i], ...) >= 0; i++.
BcSend(t) ==
    /\ rpc[t] = "bc_loop"
    /\ ri[t] < count
    /\ rsent' = [rsent EXCEPT ![t] = Append(@, client_fds[ri[t]])]
    /\ acc' = {ri[t]}
    /\ ri' = [ri EXCEPT ![t] = @ + 1]
    /\ UNCHANGED <<nonRegVars, client_fds, count, cmutex, rpc, rfd, rpre,
                   rfail>>

\* A broadcast that stops at the first failed send.
BcSendFailBreak(t) ==
    /\ rpc[t] = "bc_loop"
    /\ ri[t] < count
    /\ rsent' = [rsent EXCEPT ![t] = Append(@, client_fds[ri[t]])]
    /\ rfail' = [rfail EXCEPT ![t] = @ + 1]
    /\ acc' = {ri[t]}
    /\ rpc' = [rpc EXCEPT ![t] = "bc_unlock"]
    /\ UNCHANGED <<nonRegVars, client_fds, count, cmutex, rfd, ri, rpre>>

\* broadcast_to_clients: send(cm->client_fds[i], ...) < 0: perror; i++.
BcSendFail(t) ==
    /\ rpc[t] = "bc_loop"
    /\ ri[t] < count
    /\ rsent' = [rsent EXCEPT ![t] = Append(@, client_fds[ri[t]])]
    /\ rfail' = [rfail EXCEPT ![t] = @ + 1]
    /\ acc' = {ri[t]}
    /\ ri' = [ri EXCEPT ![t] = @ + 1]
    /\ UNCHANGED <<nonRegVars, client_fds, count, cmutex, rpc, rfd, rpre>>

\* broadcast_to_clients: i < cm->count is false: the loop ends.
BcEnd(t) ==
    /\ rpc[t] = "bc_loop"
    /\ ~(ri[t] < count)
    /\ acc' = {}
    /\ rpc' = [rpc EXCEPT ![t] = "bc_unlock"]
    /\ UNCHANGED <<nonRegVars, client_fds, count, cmutex, rfd, ri, rpre, rsent,
                   rfail>>

RegStep(t) ==
    \/ \E fd \in RegFds : CallAdd(t, fd)
    \/ AddLock(t)
    \/ AddBody(t)
    \/ \E fd \in RegFds : CallRemove(t, fd)
    \/ RmLock(t)
    \/ RmLoop(t)
    \/ RmCopy(t)
    \/ RmDec(t)
    \/ CallBroadcast(t)
    \/ BcLock(t)
    \/ BcSend(t)
    \/ BcSendFail(t)
    \/ BcEnd(t)
    \/ RegUnlock(t)

RegNext == \E t \in Callers : RegStep(t)

RegSpec == Init /\ [][RegNext]_vars

----------------------------------------------------------------------------
(* FairSpec: every worker, every sender and the listener's enqueue keep     *)
(* running while they can take a step.  accept() and the peers are the      *)
(* environment: nothing forces a client to connect or to close, and nothing *)
(* forces pthread_cond_wait to wake up without a signal.                    *)

FairSpec ==
    /\ Spec
    /\ \A w \in Workers : WF_vars(WorkerRuns(w))
    /\ \A c \in Conns : WF_vars(SenderStep(c))
    /\ WF_vars(EnqLock \/ EnqAppend \/ EnqUnlock)

----------------------------------------------------------------------------
(* SetupSpec: main from its first statement: the socket option, the socket, *)
(* bind, listen, the worker pool, and then the running server (Next).       *)

\* What main's setup never touches.
setupFrame == <<fdtab, sock, nconn, queueVars, lfd, lconn, wfd, wconn,
                senderVars, histVars, regVars, algoVars>>

SetupInit ==
    /\ CommonInit
    /\ lsock = "uninit"
    /\ lpc = "setsockopt"
    /\ wpc = [w \in Workers |-> "unstarted"]
    /\ data = <<>>
    /\ target = 0

\* setsockopt(sockfd, ...) with sockfd not assigned yet: the call acts on
\* whatever descriptor the indeterminate value names, so it may fail or
\* succeed; its return value is not looked at.  Then init_queue(&queue).
SetSockOpt ==
    /\ alive
    /\ lpc = "setsockopt"
    /\ \E failed \in BOOLEAN : optfail' = failed
    /\ lpc' = "socket"
    /\ UNCHANGED <<setupFrame, alive, wpc, lsock, exitat>>

\* (sockfd = socket(AF_INET, SOCK_STREAM, 0)) >= 0.
SocketOk ==
    /\ alive
    /\ lpc = "socket"
    /\ lsock' = "created"
    /\ lpc' = "bind"
    /\ UNCHANGED <<setupFrame, alive, wpc, optfail, exitat>>

\* socket(...) < 0: perror, exit(EXIT_FAILURE).
SocketFail ==
    /\ alive
    /\ lpc = "socket"
    /\ exitat' = "socket"
    /\ alive' = FALSE
    /\ lpc' = "exited"
    /\ UNCHANGED <<setupFrame, wpc, lsock, optfail>>

\* bind(sockfd, ...) >= 0.
BindOk ==
    /\ alive
    /\ lpc = "bind"
    /\ lsock' = "bound"
    /\ lpc' = "listen"
    /\ UNCHANGED <<setupFrame, alive, wpc, optfail, exitat>>

\* bind(...) < 0: perror, close(sockfd), exit(EXIT_FAILURE).
BindFail ==
    /\ alive
    /\ lpc = "bind"
    /\ lsock' = "closed"
    /\ exitat' = "bind"
    /\ alive' = FALSE
    /\ lpc' = "exited"
    /\ UNCHANGED <<setupFrame, wpc, optfail>>

\* listen(sockfd, BACKLOG) >= 0.
ListenOk ==
    /\ alive
    /\ lpc = "listen"
    /\ lsock' = "listening"
    /\ lpc' = "pool"
    /\ UNCHANGED <<setupFrame, alive, wpc, optfail, exitat>>

\* listen(...) < 0: perror, close(sockfd), exit(EXIT_FAILURE).
ListenFail ==
    /\ alive
    /\ lpc = "listen"
    /\ lsock' = "closed"
    /\ exitat' = "listen"
    /\ alive' = FALSE
    /\ lpc' = "exited"
    /\ UNCHANGED <<setupFrame, wpc, optfail>>

\* The workers main has not created yet; main creates them in index order.
Unstarted == {w \in Workers : wpc[w] = "unstarted"}

\* for(i ...): pthread_create(&workers[i], NULL, worker_thread, NULL) == 0,
\* pthread_detach: worker i starts running worker_thread at once.
PoolCreate ==
    /\ alive
    /\ lpc = "pool"
    /\ Unstarted # {}
    /\ LET i == CHOOSE w \in Unstarted : \A v \in Unstarted : w <= v
       IN wpc' = [wpc EXCEPT ![i] = "d_lock"]
    /\ UNCHANGED <<setupFrame, alive, lpc, lsock, optfail, exitat>>

\* pthread_create(...) != 0: perror, close(sockfd), exit(EXIT_FAILURE); the
\* workers created so far end with the process.
PoolCreateFail ==
    /\ alive
    /\ lpc = "pool"
    /\ Unstarted # {}
    /\ lsock' = "closed"
    /\ exitat' = "pool"
    /\ alive' = FALSE
    /\ lpc' = "exited"
    /\ UNCHANGED <<setupFrame, wpc, optfail>>

\* i < NUM_WORKER_THREADS is false: printf, and main enters while(1).  The
\* setup's results are not used again.
PoolDone ==
    /\ alive
    /\ lpc = "pool"
    /\ Unstarted = {}
    /\ lpc' = "accept"
    /\ optfail' = FALSE
    /\ UNCHANGED <<setupFrame, alive, wpc, lsock, exitat>>

SetupStep ==
    \/ SetSockOpt
    \/ SocketOk
    \/ SocketFail
    \/ BindOk
    \/ BindFail
    \/ ListenOk
    \/ ListenFail
    \/ PoolCreate
    \/ PoolCreateFail
    \/ PoolDone

SetupNext ==
    \/ SetupStep
    \/ Next

SetupSpec == SetupInit /\ [][SetupNext]_vars

----------------------------------------------------------------------------
(* AlgoSpec: the functions of algo.c.  A C array data[0..n-1] is the         *)
(* sequence d with d[i + 1] = data[i].                                      *)

\* process_byte_frame, first loop: for(i = 0; i < data_len; i++)
\* count[data[i]]++, the counters being uint16_t.
RECURSIVE CountLoop(_, _, _)
CountLoop(d, i, cnt) ==
    IF i < Len(d)
    THEN CountLoop(d, i + 1,
                   [cnt EXCEPT ![d[i + 1]] = (@ + 1) % CountModulus])
    ELSE cnt

\* process_byte_frame, second loop: for(i = 0; i < 256; i++)
\* if(count[i] > 0) result[(*result_len)++] = i.
RECURSIVE CollectLoop(_, _, _)
CollectLoop(cnt, i, res) ==
    IF i <= MaxByte
    THEN CollectLoop(cnt, i + 1, IF cnt[i] > 0 THEN Append(res, i) ELSE res)
    ELSE res

\* process_byte_frame(data, data_len, result, &result_len) with non-null
\* pointers: what it leaves in result[0..result_len-1].  It returns 0.
process_byte_frame(d) ==
    CollectLoop(CountLoop(d, 0, [b \in Bytes |-> 0]), 0, <<>>)

\* binary_search_for_byte: while(left <= right) { mid = ...; ... }.
RECURSIVE BinaryLoop(_, _, _, _)
BinaryLoop(d, t, left, right) ==
    IF left <= right
    THEN LET mid == left + (right - left) \div 2
         IN IF d[mid + 1] = t THEN mid
            ELSE IF d[mid + 1] < t THEN BinaryLoop(d, t, mid + 1, right)
            ELSE BinaryLoop(d, t, left, mid - 1)
    ELSE -1

binary_search_for_byte(d, t) ==
    IF Len(d) <= 0 THEN -1 ELSE BinaryLoop(d, t, 0, Len(d) - 1)

\* linear_search_for_byte: for(i = 0; i < data_len; i++) if(data[i] == target).
RECURSIVE LinearLoop(_, _, _)
LinearLoop(d, t, i) ==
    IF i < Len(d)
    THEN IF d[i + 1] = t THEN i ELSE LinearLoop(d, t, i + 1)
    ELSE -1

linear_search_for_byte(d, t) ==
    IF Len(d) <= 0 THEN -1 ELSE LinearLoop(d, t, 0)

\* Ascending order, as the sort in algo.c's main leaves the array.
IsSorted(d) == \A i, j \in 1..Len(d) : i < j => d[i] <= d[j]

AlgoInit ==
    /\ CommonInit
    /\ ServerUp
    /\ data \in Arrays
    /\ target \in Bytes

\* if(process_byte_frame(data, len, result, &result_len) == 0) ...
CallProcessByteFrame ==
    /\ apc = "idle"
    /\ result' = process_byte_frame(data)
    /\ ret' = 0
    /\ apc' = "processed"
    /\ UNCHANGED <<srvVars, regVars, setupVars, data, target, bin_res,
                   lin_res>>

\* binary_search_for_byte and linear_search_for_byte on the same sorted
\* array and target.
CallSearch ==
    /\ apc = "idle"
    /\ IsSorted(data)
    /\ bin_res' = binary_search_for_byte(data, target)
    /\ lin_res' = linear_search_for_byte(data, target)
    /\ apc' = "searched"
    /\ UNCHANGED <<srvVars, regVars, setupVars, data, target, result, ret>>

AlgoNext ==
    \/ CallProcessByteFrame
    \/ CallSearch

AlgoSpec == AlgoInit /\ [][AlgoNext]_vars

----------------------------------------------------------------------------
(* LockSpec: the threads of Callers call the queue's functions (enqueue,    *)
(* dequeue) and the client manager's functions in any order, one call after *)
(* the other.  rpc[t] is the caller's position, rfd[t] the descriptor it    *)
(* passes to enqueue or gets from dequeue.                                  *)

\* What enqueue and dequeue never touch, apart from their caller's locals.
queueFrame ==
    <<kernelVars, listenerVars, workerVars, senderVars, histVars, setupVars,
      algoVars, client_fds, count, cmutex, ri, acc, rpre, rsent, rfail>>

\* The callers that are inside enqueue and have not linked their node yet.
Enqueuing == {t \in Callers : rpc[t] \in {"enqueue", "e_append"}}

\* A thread calls enqueue(&queue, fd).
CallEnqueue(t, fd) ==
    /\ rpc[t] = "idle"
    /\ Len(queue) + Cardinality(Enqueuing) < MaxQueued
    /\ rpc' = [rpc EXCEPT ![t] = "enqueue"]
    /\ rfd' = [rfd EXCEPT ![t] = fd]
    /\ UNCHANGED <<queueVars, queueFrame>>

\* An enqueue that takes the mutex before it allocates the node, and returns
\* on a failed malloc without releasing it.
CallerEnqFailLocked(t) ==
    /\ rpc[t] = "enqueue"
    /\ qmutex = 0
    /\ qmutex' = t
    /\ rpc' = [rpc EXCEPT ![t] = "idle"]
    /\ rfd' = [rfd EXCEPT ![t] = 0]
    /\ UNCHANGED <<queue, waiters, queueFrame>>

\* enqueue: malloc fails: perror, return (the mutex was not taken yet).
CallerEnqMallocFail(t) ==
    /\ rpc[t] = "enqueue"
    /\ rpc' = [rpc EXCEPT ![t] = "idle"]
    /\ rfd' = [rfd EXCEPT ![t] = 0]
    /\ UNCHANGED <<queueVars, queueFrame>>

\* enqueue: malloc succeeds; pthread_mutex_lock(&q->mutex).
CallerEnqLock(t) ==
    /\ rpc[t] = "enqueue"
    /\ qmutex = 0
    /\ qmutex' = t
    /\ rpc' = [rpc EXCEPT ![t] = "e_append"]
    /\ UNCHANGED <<queue, waiters, rfd, queueFrame>>

\* enqueue: link the node at the tail; pthread_cond_signal(&q->cond).
CallerEnqAppend(t) ==
    /\ rpc[t] = "e_append"
    /\ queue' = QueueAppend(queue, Node(rfd[t], 0))
    /\ IF waiters = {}
       THEN waiters' = waiters
       ELSE \E u \in waiters : waiters' = waiters \ {u}
    /\ rpc' = [rpc EXCEPT ![t] = "e_unlock"]
    /\ UNCHANGED <<qmutex, rfd, queueFrame>>

\* enqueue: pthread_mutex_unlock(&q->mutex); return.
CallerEnqUnlock(t) ==
    /\ rpc[t] = "e_unlock"
    /\ qmutex' = 0
    /\ rpc' = [rpc EXCEPT ![t] = "idle"]
    /\ rfd' = [rfd EXCEPT ![t] = 0]
    /\ UNCHANGED <<queue, waiters, queueFrame>>

\* A thread calls dequeue(&queue).
CallDequeue(t) ==
    /\ rpc[t] = "idle"
    /\ rpc' = [rpc EXCEPT ![t] = "d_lock"]
    /\ UNCHANGED <<queueVars, rfd, queueFrame>>

\* dequeue: pthread_mutex_lock(&q->mutex).
CallerDeqLock(t) ==
    /\ rpc[t] = "d_lock"
    /\ qmutex = 0
    /\ qmutex' = t
    /\ rpc' = [rpc EXCEPT ![t] = "d_check"]
    /\ UNCHANGED <<queue, waiters, rfd, queueFrame>>

\* dequeue: q->head == NULL: pthread_cond_wait releases the mutex and blocks.
CallerDeqWait(t) ==
    /\ rpc[t] = "d_check"
    /\ queue = <<>>
    /\ qmutex' = 0
    /\ waiters' = waiters \cup {t}
    /\ rpc' = [rpc EXCEPT ![t] = "d_wait"]
    /\ UNCHANGED <<queue, rfd, queueFrame>>

\* pthread_cond_wait may return without a signal.
CallerSpuriousWake(t) ==
    /\ rpc[t] = "d_wait"
    /\ t \in waiters
    /\ waiters' = waiters \ {t}
    /\ UNCHANGED <<queue, qmutex, rpc, rfd, queueFrame>>

\* pthread_cond_wait returns: the mutex is re-acquired, the loop re-tests.
CallerDeqWake(t) ==
    /\ rpc[t] = "d_wait"
    /\ t \notin waiters
    /\ qmutex = 0
    /\ qmutex' = t
    /\ rpc' = [rpc EXCEPT ![t] = "d_check"]
    /\ UNCHANGED <<queue, waiters, rfd, queueFrame>>

\* dequeue: q->head != NULL: unlink the head node, read its connfd, free it.
CallerDeqTake(t) ==
    /\ rpc[t] = "d_check"
    /\ queue # <<>>
    /\ rfd' = [rfd EXCEPT ![t] = QueueHead(queue).connfd]
    /\ queue' = QueueRest(queue)
    /\ rpc' = [rpc EXCEPT ![t] = "d_unlock"]
    /\ UNCHANGED <<qmutex, waiters, queueFrame>>

\* dequeue: pthread_mutex_unlock(&q->mutex); return connfd.
CallerDeqUnlock(t) ==
    /\ rpc[t] = "d_unlock"
    /\ qmutex' = 0
    /\ rpc' = [rpc EXCEPT ![t] = "idle"]
    /\ rfd' = [rfd EXCEPT ![t] = 0]
    /\ UNCHANGED <<queue, waiters, queueFrame>>

QueueStep(t) ==
    \/ \E fd \in RegFds : CallEnqueue(t, fd)
    \/ CallerEnqMallocFail(t)
    \/ CallerEnqLock(t)
    \/ CallerEnqAppend(t)
    \/ CallerEnqUnlock(t)
    \/ CallDequeue(t)
    \/ CallerDeqLock(t)
    \/ CallerDeqWait(t)
    \/ CallerSpuriousWake(t)
    \/ CallerDeqWake(t)
    \/ CallerDeqTake(t)
    \/ CallerDeqUnlock(t)

LockNext ==
    \/ \E t \in Callers : QueueStep(t)
    \/ \E t \in Callers : RegStep(t)

LockSpec == Init /\ [][LockNext]_vars

----------------------------------------------------------------------------
(* Properties *)

\* Worker w holds a connection: from the removal of the node in dequeue to
\* the worker's close.
Dispatched(w) == wpc[w] \in {"d_unlock", "spawn", "recv", "close"}

ReadLoopRunning(c) == \E w \in Workers : wconn[w] = c /\ wpc[w] = "recv"
SenderLoopRunning(c) == spc[c] = "send"

\* close() calls issued so far for connection c: by its worker (which moves c
\* to "closed") and by its sender (which ends in "done").
Closes(c) ==
    (IF phase[c] = "closed" THEN 1 ELSE 0) + (IF spc[c] = "done" THEN 1 ELSE 0)

\* C1: a connection's socket is closed exactly once, only after both its read
\* loop and its sender loop have ended: no second close is issued for the
\* connection, and no send or recv is issued for it once it is closed.
C1_ClosedOnceAfterBothLoops ==
    /\ [](\A c \in Conns :
            /\ Closes(c) <= 1
            /\ sock[c] = "closed" =>
                 ~ReadLoopRunning(c) /\ ~SenderLoopRunning(c))
    /\ [][\A c \in Conns : sock[c] = "closed" =>
            /\ ~SenderSend(c)
            /\ ~SenderSendFail(c)
            /\ \A w \in Workers : wconn[w] = c => ~RecvEnd(w)]_vars

\* C2: the connections dequeue has returned, in the order of their removal
\* under the queue lock, followed by those still queued, are the connections
\* enqueue appended, in the order they were appended.
C2_FifoDispatch ==
    deqHist \o [k \in 1..Len(queue) |-> queue[k].conn] = enqHist

\* Both workers hold a connection they dequeued and one more was dequeued
\* or is waiting: several consumers took part.
C2_Witness ==
    /\ Len(deqHist) >= 2
    /\ \E v, w \in Workers : v # w /\ Dispatched(v) /\ Dispatched(w)
    /\ queue # <<>>

ActiveConns == {c \in Conns : phase[c] = "active"}

\* C3: at most NUM_WORKER_THREADS connections are dequeued and not yet closed
\* by their worker, whatever the queue holds, and each of them is serviced by
\* exactly one worker, which services nothing else.
C3_AtMostWActive ==
    /\ Cardinality(ActiveConns) <= NUM_WORKER_THREADS
    /\ \A c \in ActiveConns :
         Cardinality({w \in Workers : Dispatched(w) /\ wconn[w] = c}) = 1

\* Every worker is servicing a connection while another one waits in the queue.
C3_Witness ==
    /\ Cardinality(ActiveConns) = NUM_WORKER_THREADS
    /\ queue # <<>>

\* C4: a handle is in the client manager if and only if a worker has
\* dispatched it and has not closed it yet.  (The pool is no larger than the
\* registry, so a registration at dispatch always finds room.)
C4_RegistryTracksDispatched ==
    \A f \in Fds :
        f \in Range(Contents)
            <=> \E w \in Workers : wpc[w] \in {"recv", "close"} /\ wfd[w] = f

\* C5: count stays within 0..MAX_CLIENTS and every statement of add_client,
\* remove_client and broadcast_to_clients reads or writes only slots
\* 0..count-1 of client_fds.
C5_RegistryBounds ==
    /\ count \in 0..MAX_CLIENTS
    /\ acc \subseteq 0..(count - 1)

\* An add_client call was rejected at capacity while another caller is
\* inside or waiting for one of the three operations.
C5_Witness ==
    \E t, u \in Callers :
        /\ t # u
        /\ rpc[t] = "add_unlock"
        /\ Len(rpre[t]) = MAX_CLIENTS
        /\ count = MAX_CLIENTS
        /\ rpc[u] \in {"add_lock", "rm_lock", "bc_lock"}

C8_RemoveUnregisters ==
    \A t \in Callers : rpc[t] = "rm_unlock" =>
        /\ rfd[t] \notin Range(Contents)
        /\ \A h \in Range(rpre[t]) \ {rfd[t]} : h \in Range(Contents)
        /\ rfd[t] \notin Range(rpre[t]) => Contents = rpre[t]

\* C9: a sender sends only on the connection it was started for, a worker
\* reads only from the connection it dequeued, and a close issued by a
\* connection's worker or sender never releases another connection's socket.
C9_NoCrossConnection ==
    [][/\ \A c \in Conns :
            /\ SenderSend(c) => fdtab[sfd[c]] = c
            /\ SenderClose(c) => ~Crosses(c, sfd[c])
       /\ \A w \in Workers :
            /\ RecvEnd(w) => ~Crosses(wconn[w], wfd[w])
            /\ WorkerClose(w) => ~Crosses(wconn[w], wfd[w])]_vars

\* C10: once the peer of a connection has closed, the sender started for that
\* connection eventually terminates (by returning, or with the process).
C10_SenderStopsAfterPeerClose ==
    \A c \in Conns :
        (sock[c] \in {"fin", "rst"} /\ SenderLoopRunning(c))
            ~> (spc[c] = "done" \/ ~alive)

\* C11: the sender never closes the socket: no step of any sender thread is
\* a close(connfd); only the worker that owns the read loop issues close.
C11_SenderNeverCloses ==
    [][\A c \in Conns : ~SenderClose(c)]_vars

\* C12: dequeue never returns while the queue is empty and never returns a
\* sentinel: a worker that evaluates the loop condition on an empty queue
\* goes (back) to waiting, a worker leaves the loop only on a non-empty queue
\* and with the handle at its head, and what dequeue is about to return is a
\* handle that enqueue appended, the one removed last.
C12_DequeueReturnsHead ==
    /\ [](\A w \in Workers : wpc[w] = "d_unlock" =>
            /\ wfd[w] \in Fds
            /\ wconn[w] \in Conns
            /\ deqHist # <<>>
            /\ Len(deqHist) <= Len(enqHist)
            /\ wconn[w] = enqHist[Len(deqHist)])
    /\ [][\A w \in Workers :
            /\ (wpc[w] = "d_check" /\ queue = <<>> /\ wpc'[w] # "d_check")
                 => wpc'[w] = "d_wait"
            /\ (wpc[w] # "d_unlock" /\ wpc'[w] = "d_unlock")
                 => /\ queue # <<>>
                    /\ wfd'[w] = QueueHead(queue).connfd
                    /\ queue' = QueueRest(queue)]_vars

\* A worker has been woken and will find the queue empty, after a connection
\* went through the queue, while another worker is still blocked on the
\* condition.
C12_Witness ==
    \E v, w \in Workers :
        /\ v # w
        /\ wpc[w] = "d_wait" /\ w \notin waiters
        /\ wpc[v] = "d_wait" /\ v \in waiters
        /\ queue = <<>>
        /\ deqHist # <<>>

\* C13: when enqueue cannot allocate its node, the queue is left unchanged,
\* no worker is handed the handle, and the accepted socket is released on
\* that path.
C13_MallocFailureReleasesSocket ==
    [][EnqMallocFail =>
         /\ queue' = queue
         /\ wfd' = wfd
         /\ fdtab'[lfd] = 0
         /\ sock'[lconn] = "closed"]_vars

\* C14: a failed accept changes nothing and the listener goes on to the next
\* accept; a successful accept hands exactly the accepted handle to enqueue,
\* which appends it once (or reports that it could not allocate the node);
\* and no error on a connection ever ends the accept loop or the process.
C14_AcceptLoopNeverExits ==
    /\ [](alive /\ lpc \in {"accept", "enqueue", "e_append", "e_unlock"})
    /\ [][/\ AcceptFail =>
               /\ queue' = queue /\ workerVars' = workerVars
               /\ sock' = sock /\ fdtab' = fdtab
               /\ lpc' = "accept"
          /\ Accept => lpc' = "enqueue" /\ fdtab'[lfd'] = lconn'
          /\ EnqAppend =>
               /\ queue' = Append(queue, Node(lfd, lconn))
               /\ lconn \notin Range(enqHist)]_vars

\* C15: every setup failure is fatal: after a failed setsockopt main does not
\* go on to create the socket, and when socket, bind or listen fails the
\* process exits with EXIT_FAILURE, which happens before any worker thread
\* was started and before any connection was accepted.
C15_SetupFailureFatal ==
    /\ optfail => lsock = "uninit"
    /\ exitat \in {"socket", "bind", "listen"} =>
         /\ ~alive
         /\ \A w \in Workers : wpc[w] = "unstarted"
         /\ nconn = 0

\* C16: a broadcast is atomic with respect to registry changes: from its
\* first send to its return the registry holds what it held when the
\* broadcast took the lock, and no add_client or remove_client is inside its
\* critical section, so the handles sent to are one point-in-time content.
C16_BroadcastAtomic ==
    \A t \in Callers : rpc[t] \in {"bc_loop", "bc_unlock"} =>
        /\ cmutex = t
        /\ Contents = rpre[t]
        /\ Range(rsent[t]) \subseteq Range(rpre[t])
        /\ \A u \in Callers \ {t} :
             rpc[u] \in {"idle", "add_lock", "rm_lock", "bc_lock"}

\* A broadcast over two handles has sent to the first one while another
\* thread has called add_client or remove_client and waits for the lock.
C16_Witness ==
    \E t, u \in Callers :
        /\ t # u
        /\ rpc[t] = "bc_loop"
        /\ ri[t] = 1
        /\ Len(rpre[t]) = 2
        /\ rpc[u] \in {"add_lock", "rm_lock"}

\* C17: process_byte_frame returns 0 and writes exactly the distinct byte
\* values of data, each once, in strictly ascending order: every value that
\* occurs in data occurs in result, whatever its number of occurrences, and
\* result_len is the number of distinct values (at most data_len).
C17_DistinctSortedBytes ==
    apc = "processed" =>
        /\ ret = 0
        /\ \A i, j \in 1..Len(result) : i < j => result[i] < result[j]
        /\ Range(result) = Range(data)
        /\ Len(result) = Cardinality(Range(data))
        /\ Len(result) <= Len(data)

\* C18: on a sorted array binary_search_for_byte returns what
\* linear_search_for_byte returns: the index of the first occurrence of the
\* target, and -1 when the target does not occur.
C18_BinaryFindsFirst ==
    apc = "searched" =>
        /\ bin_res = lin_res
        /\ target \notin Range(data) => bin_res = -1
        /\ target \in Range(data) =>
             /\ bin_res \in 0..(Len(data) - 1)
             /\ data[bin_res + 1] = target
             /\ \A i \in 1..bin_res : data[i] # target

\* The connections waiting in the queue, head first.
QueuedConns == [k \in 1..Len(queue) |-> queue[k].conn]

\* C19: every handle enqueue appended is either still in the queue or was
\* returned by dequeue exactly once, to one worker: none is appended or
\* returned twice, none is lost, none is returned that was never appended,
\* and a worker holds only a handle dequeue returned.
C19_ExactlyOnceHandoff ==
    LET Occ(q, c) == Cardinality({k \in 1..Len(q) : q[k] = c})
    IN /\ \A c \in Conns :
            /\ Occ(enqHist, c) <= 1
            /\ Occ(enqHist, c) = Occ(QueuedConns, c) + Occ(deqHist, c)
            /\ Cardinality({w \in Workers : wconn[w] = c}) <= Occ(deqHist, c)
       /\ \A w \in Workers : Dispatched(w) => Occ(deqHist, wconn[w]) = 1

\* One connection has been handed to a worker and closed, another is held by
\* a worker, a third waits in the queue, and a worker is free to dequeue.
C19_Witness ==
    /\ \E c \in Conns : phase[c] = "closed"
    /\ \E w \in Workers : Dispatched(w)
    /\ \E w \in Workers : wpc[w] \in {"d_lock", "d_check", "d_wait"}
    /\ queue # <<>>

\* Worker w is idle: about to call dequeue, or inside it.
Idle(w) == wpc[w] \in {"d_lock", "d_check", "d_wait"}

WorkerRunning(w) == alive /\ (Idle(w) \/ Dispatched(w))

\* C21: a worker never exits, and it handles both ends of the read loop the
\* same way: whether recv returned 0 or a negative value, the worker goes on
\* to close the descriptor, does not read the connection again, and returns
\* to dequeue; so all workers are always servicing a connection or in dequeue.
C21_WorkerOutlivesReadFailures ==
    /\ [](\A w \in Workers : WorkerRunning(w))
    /\ [][\A w \in Workers :
            /\ RecvEnd(w) =>
                 /\ RecvOutcome(wfd[w]) \in {"eof", "err"}
                 /\ wpc'[w] = "close"
            /\ wpc[w] = "close" /\ wpc'[w] # "close" =>
                 /\ wpc'[w] = "d_lock"
                 /\ fdtab'[wfd[w]] = 0
                 /\ wconn'[w] = 0]_vars

\* Some thread still works on connection c: its worker is between dequeue's
\* return and the end of the read loop, or its sender is in the send loop.
InService(c) ==
    \/ \E w \in Workers : wconn[w] = c /\ wpc[w] \in {"spawn", "recv"}
    \/ SenderLoopRunning(c)

\* C22: a connection only moves forward through accepted, queued,
\* dispatched, active, closing, closed: it is appended to the queue at most
\* once, removed from it at most once, given at most one sender, and once
\* its socket is closed it stays closed, is not in the queue, and no thread
\* is still reading from it or sending on it.
C22_ForwardOnlyLifecycle ==
    /\ [](LET Occ(q, c) == Cardinality({k \in 1..Len(q) : q[k] = c})
          IN \A c \in Conns :
               /\ Occ(enqHist, c) <= 1
               /\ Occ(deqHist, c) <= 1
               /\ sock[c] = "closed" =>
                    /\ Occ(QueuedConns, c) = 0
                    /\ ~InService(c))
    /\ [][\A c \in Conns :
            /\ spc'[c] = "send" /\ spc[c] # "send" => spc[c] = "none"
            /\ sock[c] = "closed" => sock'[c] = "closed"
            /\ sock[c] # "none" => sock'[c] # "none"]_vars

\* Where a caller is between pthread_mutex_lock and pthread_mutex_unlock of
\* the queue's mutex, and of the client manager's mutex.
InQueueSection(t) == rpc[t] \in {"e_append", "e_unlock", "d_check", "d_unlock"}
InRegistrySection(t) ==
    rpc[t] \in {"add_body", "add_unlock", "rm_loop", "rm_copy", "rm_dec",
                "rm_unlock", "bc_loop", "bc_unlock"}

\* Caller t is about to acquire a mutex: it is at a pthread_mutex_lock, or
\* it was woken inside pthread_cond_wait and has to re-acquire the mutex.
AcquiresQueueLock(t) ==
    \/ rpc[t] \in {"enqueue", "d_lock"}
    \/ rpc[t] = "d_wait" /\ t \notin waiters
AcquiresRegistryLock(t) == rpc[t] \in {"add_lock", "rm_lock", "bc_lock"}

\* C23: no thread holds the queue's mutex and the client manager's mutex at
\* the same time; a thread holds a mutex only inside the operation that took
\* it, so every operation has released its mutex when it returns; and no
\* thread waits for a mutex while it holds one, so no set of threads can wait
\* on each other's locks.
C23_LocksNeverNested ==
    \A t \in Callers :
        /\ ~(qmutex = t /\ cmutex = t)
        /\ qmutex = t <=> InQueueSection(t)
        /\ cmutex = t <=> InRegistrySection(t)
        /\ rpc[t] = "idle" => qmutex # t /\ cmutex # t
        /\ (qmutex = t \/ cmutex = t) =>
             ~AcquiresQueueLock(t) /\ ~AcquiresRegistryLock(t)

\* Both mutexes are held at once, by two different threads, after an enqueue
\* and an add_client have returned.
C23_Witness ==
    /\ \E t, u \in Callers : t # u /\ qmutex = t /\ cmutex = u
    /\ queue # <<>>
    /\ count > 0

\* Worker w services a connection for which no sender thread was created.
ServesWithoutSender(w) == wpc[w] \in {"recv", "close"} /\ spc[wconn[w]] = "none"

\* C24: when the worker cannot create the sender for a dequeued connection,
\* the connection is still serviced: the worker goes on to the read loop,
\* which runs until the peer has closed or the connection has failed, then
\* closes the connection's socket, which was not closed before, and returns
\* to dequeue; no sender sends on that connection, and no other connection is
\* touched.
C24_SenderFailureIsolated ==
    /\ [](\A w \in Workers : ServesWithoutSender(w) =>
            \A d \in Conns : spc[d] \in {"send", "close"} =>
                                fdtab[sfd[d]] # wconn[w])
    /\ [][\A w \in Workers :
            /\ SpawnFail(w) \/ SpawnNoMem(w) =>
                 /\ alive'
                 /\ wpc'[w] = "recv"
                 /\ spc'[wconn[w]] = "none"
                 /\ sock' = sock /\ fdtab' = fdtab /\ queue' = queue
            /\ ServesWithoutSender(w) /\ RecvEnd(w) =>
                 sock[wconn[w]] \in {"fin", "rst"}
            /\ ServesWithoutSender(w) /\ WorkerClose(w) =>
                 /\ fdtab[wfd[w]] = wconn[w]
                 /\ sock[wconn[w]] # "closed"
                 /\ sock'[wconn[w]] = "closed"
                 /\ \A d \in Conns \ {wconn[w]} : sock'[d] = sock[d]
                 /\ wpc'[w] = "d_lock"]_vars

====
